---- MODULE Spec2Model ----
(***************************************************************************)
(* Study timer service (src/main.py): one process-wide timer, a log of     *)
(* completed study sessions, the user's streak statistics and the four     *)
(* achievements.  Every request handler is one atomic action: the handlers *)
(* are coroutines without an await, so each runs to completion on the      *)
(* event loop, and each reads the wall clock once (the readings of         *)
(* datetime.now() inside one handler are taken as the same instant).       *)
(*                                                                         *)
(* Time is counted in minutes.  The wall clock is the variable now; it is  *)
(* moved by the environment (Tick forwards, ClockBack backwards: now() is  *)
(* naive local time and may be set back).  A calendar day is shortened     *)
(* from 1440 minutes to MinutesPerDay minutes so that several days fit     *)
(* into the explored window 0..MaxTime.                                    *)
(*                                                                         *)
(* resp is the response of the request served by the last step (NoResp     *)
(* after a step of the clock); reported is a history variable counting,    *)
(* per achievement, the stop responses that listed it as newly unlocked;   *)
(* back is the number of minutes the clock has been set back so far.       *)
(***************************************************************************)
EXTENDS Integers, Sequences, FiniteSets, TLC

VARIABLES now, back, active_timer, study_sessions, user_stats, resp, reported

vars == <<now, back, active_timer, study_sessions, user_stats, resp, reported>>

\* ---- bounds of the explored window ----
MaxTime == 6
MinutesPerDay == 2
MaxSessions == 3
MaxBack == 1

\* ---- program constants ----
None == -1
DefaultDuration == 25
ThreeDayStreak == 3
WeekStreak == 7
StudyMasterStreak == 3

\* durations handed to POST /timer/start: the parameter is a plain int, so a
\* negative value is accepted as well as a positive one
Durations == {-1, 1}

AchievementIds == <<"first_session", "three_day_streak", "week_streak", "study_master">>

IdSet == {AchievementIds[i] : i \in 1..Len(AchievementIds)}

\* datetime.date(): the calendar day an instant falls on
Date(t) == t \div MinutesPerDay

\* ACHIEVEMENTS / user_stats.achievements: every entry locked at start
ACHIEVEMENTS == [id \in IdSet |-> [unlocked |-> FALSE, unlocked_date |-> None]]

\* UserStats()
UserStats == [total_study_time |-> 0, current_streak |-> 0, longest_streak |-> 0,
              last_study_date |-> None, achievements |-> ACHIEVEMENTS]

\* Timer(duration, start_time, is_running)
Timer(d, s, r) == [duration |-> d, start_time |-> s, is_running |-> r]

\* StudySession(start_time, end_time, duration, completed)
StudySession(s, e, d, c) == [start_time |-> s, end_time |-> e, duration |-> d, completed |-> c]

Max(a, b) == IF a >= b THEN a ELSE b

NoResp == [op |-> "none"]

\* ---- update_streak ----
\* mutant: the longest streak is not brought up to the current one
update_streak_no_max(us, t) ==
  IF us.last_study_date = None
  THEN [us EXCEPT !.current_streak = 1, !.last_study_date = t]
  ELSE LET days_diff == Date(t) - Date(us.last_study_date) IN
       IF days_diff = 0
       THEN us
       ELSE IF days_diff = 1
            THEN [us EXCEPT !.current_streak = us.current_streak + 1, !.last_study_date = t]
            ELSE [us EXCEPT !.current_streak = 1, !.last_study_date = t]

\* mutant: a last study date in the future (clock set back) counts as "today"
update_streak_future_is_today(us, t) ==
  IF us.last_study_date = None
  THEN [us EXCEPT !.current_streak = 1, !.longest_streak = Max(1, us.longest_streak),
                  !.last_study_date = t]
  ELSE LET days_diff == Date(t) - Date(us.last_study_date) IN
       IF days_diff <= 0
       THEN us
       ELSE LET s1 == IF days_diff = 1
                      THEN [us EXCEPT !.current_streak = us.current_streak + 1]
                      ELSE [us EXCEPT !.current_streak = 1]
            IN [s1 EXCEPT !.longest_streak = Max(s1.current_streak, s1.longest_streak),
                          !.last_study_date = t]

\* mutant: a gap of several days continues the streak like the next day does
update_streak_gap_continues(us, t) ==
  IF us.last_study_date = None
  THEN [us EXCEPT !.current_streak = 1, !.longest_streak = Max(1, us.longest_streak),
                  !.last_study_date = t]
  ELSE LET days_diff == Date(t) - Date(us.last_study_date) IN
       IF days_diff = 0
       THEN us
       ELSE LET s1 == IF days_diff >= 1
                      THEN [us EXCEPT !.current_streak = us.current_streak + 1]
                      ELSE [us EXCEPT !.current_streak = 1]
            IN [s1 EXCEPT !.longest_streak = Max(s1.current_streak, s1.longest_streak),
                          !.last_study_date = t]

\* mutant: a further stop on the same day still moves last_study_date
update_streak_touch_same_day(us, t) ==
  IF us.last_study_date = None
  THEN [us EXCEPT !.current_streak = 1, !.longest_streak = Max(1, us.longest_streak),
                  !.last_study_date = t]
  ELSE LET days_diff == Date(t) - Date(us.last_study_date) IN
       IF days_diff = 0
       THEN [us EXCEPT !.last_study_date = t]
       ELSE LET s1 == IF days_diff = 1
                      THEN [us EXCEPT !.current_streak = us.current_streak + 1]
                      ELSE [us EXCEPT !.current_streak = 1]
            IN [s1 EXCEPT !.longest_streak = Max(s1.current_streak, s1.longest_streak),
                          !.last_study_date = t]

update_streak(us, t) ==
  LET today == Date(t) IN
  IF us.last_study_date = None
  THEN LET s1 == [us EXCEPT !.current_streak = 1] IN
       [s1 EXCEPT !.longest_streak = Max(s1.current_streak, s1.longest_streak),
                  !.last_study_date = t]
  ELSE LET days_diff == today - Date(us.last_study_date) IN
       IF days_diff = 0
       THEN us
       ELSE LET s1 == IF days_diff = 1
                      THEN [us EXCEPT !.current_streak = us.current_streak + 1]
                      ELSE [us EXCEPT !.current_streak = 1]
            IN [s1 EXCEPT !.longest_streak = Max(s1.current_streak, s1.longest_streak),
                          !.last_study_date = t]

\* ---- check_achievements ----
\* mutant: the flag follows the condition, so it is cleared when the condition fails
UnlockFollowsCond(st, id, cond, t) ==
  IF cond /\ ~st.us.achievements[id].unlocked
  THEN [us |-> [st.us EXCEPT !.achievements[id] = [unlocked |-> TRUE, unlocked_date |-> t]],
        newly_unlocked |-> Append(st.newly_unlocked, id)]
  ELSE [st EXCEPT !.us.achievements[id].unlocked = cond]

\* one "if <cond> and not unlocked" block: unlock id at instant t and report it
Unlock(st, id, cond, t) ==
  IF cond /\ ~st.us.achievements[id].unlocked
  THEN [us |-> [st.us EXCEPT !.achievements[id] = [unlocked |-> TRUE, unlocked_date |-> t]],
        newly_unlocked |-> Append(st.newly_unlocked, id)]
  ELSE st

\* mutant: the log is looked at as it was before the append
first_session_cond_before_append(sessions, us) == Len(sessions) = 0

first_session_cond(sessions, us) == Len(sessions) = 1

\* mutant: the threshold is one day short
three_day_streak_cond_two(sessions, us) == us.current_streak >= ThreeDayStreak - 1

three_day_streak_cond(sessions, us) == us.current_streak >= ThreeDayStreak

\* mutant: the threshold is one day short
week_streak_cond_six(sessions, us) == us.current_streak >= WeekStreak - 1

week_streak_cond(sessions, us) == us.current_streak >= WeekStreak

\* mutant: study_master is decided by the ten hours of its description
study_master_cond_ten_hours(sessions, us) == us.total_study_time >= 600

study_master_cond(sessions, us) == us.current_streak >= StudyMasterStreak

check_achievements(sessions, us, t) ==
  LET s0 == [us |-> us, newly_unlocked |-> <<>>]
      s1 == Unlock(s0, "first_session", first_session_cond(sessions, us), t)
      s2 == Unlock(s1, "three_day_streak", three_day_streak_cond(sessions, us), t)
      s3 == Unlock(s2, "week_streak", week_streak_cond(sessions, us), t)
      s4 == Unlock(s3, "study_master", study_master_cond(sessions, us), t)
  IN s4

\* mutant: a start is only served while no timer is running
start_timer_when_idle(duration) ==
  /\ ~active_timer.is_running
  /\ active_timer' = Timer(duration, now, TRUE)
  /\ resp' = [op |-> "start", timer |-> active_timer']
  /\ UNCHANGED <<now, back, study_sessions, user_stats, reported>>

\* ---- POST /timer/start ----
start_timer(duration) ==
  /\ active_timer' = Timer(duration, now, TRUE)
  /\ resp' = [op |-> "start", timer |-> active_timer']
  /\ UNCHANGED <<now, back, study_sessions, user_stats, reported>>

\* ---- GET /timer/status ----
\* remaining = timedelta(minutes=duration) - (now - start_time), in minutes
Remaining(tm, t) == tm.duration - (t - tm.start_time)

\* mutant: a timer whose time is exactly up still counts as running
ExpiredStrict(tm, t) == Remaining(tm, t) * 60 < 0

\* remaining.total_seconds() <= 0
Expired(tm, t) == Remaining(tm, t) * 60 <= 0

\* mutant: every read of a running timer ends it
get_timer_status_flip ==
  /\ IF ~active_timer.is_running
     THEN /\ resp' = [op |-> "status", status |-> "stopped", remaining |-> 0]
          /\ UNCHANGED active_timer
     ELSE /\ active_timer' = [active_timer EXCEPT !.is_running = FALSE]
          /\ resp' = IF Expired(active_timer, now)
                     THEN [op |-> "status", status |-> "completed", remaining |-> 0]
                     ELSE [op |-> "status", status |-> "running",
                           remaining_seconds |-> Remaining(active_timer, now) * 60]
  /\ UNCHANGED <<now, back, study_sessions, user_stats, reported>>

\* mutant: a read that finds the time up reports it without clearing the flag
get_timer_status_no_flip ==
  /\ resp' = IF ~active_timer.is_running
             THEN [op |-> "status", status |-> "stopped", remaining |-> 0]
             ELSE IF Expired(active_timer, now)
                  THEN [op |-> "status", status |-> "completed", remaining |-> 0]
                  ELSE [op |-> "status", status |-> "running",
                        remaining_seconds |-> Remaining(active_timer, now) * 60]
  /\ UNCHANGED <<now, back, active_timer, study_sessions, user_stats, reported>>

get_timer_status ==
  /\ IF ~active_timer.is_running
     THEN /\ resp' = [op |-> "status", status |-> "stopped", remaining |-> 0]
          /\ UNCHANGED active_timer
     ELSE IF Expired(active_timer, now)
          THEN /\ active_timer' = [active_timer EXCEPT !.is_running = FALSE]
               /\ resp' = [op |-> "status", status |-> "completed", remaining |-> 0]
          ELSE /\ resp' = [op |-> "status", status |-> "running",
                           remaining_seconds |-> Remaining(active_timer, now) * 60]
               /\ UNCHANGED active_timer
  /\ UNCHANGED <<now, back, study_sessions, user_stats, reported>>

\* ---- POST /timer/stop ----
\* mutant: the guard is missing
NotRunningUnchecked == FALSE

\* mutant: a timer whose duration has elapsed is refused like one not running
NotRunningOrExpired == ~active_timer.is_running \/ Expired(active_timer, now)

\* if not active_timer.is_running: raise HTTPException(400)
NotRunning == ~active_timer.is_running

\* mutant: the session records the time that actually elapsed
SessionDurationElapsed(tm, t) == t - tm.start_time

\* duration=active_timer.duration
SessionDuration(tm, t) == tm.duration

\* mutant: the log is replaced by the new session instead of being appended to
stop_timer_overwrite ==
  IF NotRunning
  THEN /\ resp' = [op |-> "stop", status_code |-> 400, detail |-> "Timer is not running"]
       /\ UNCHANGED <<now, back, active_timer, study_sessions, user_stats, reported>>
  ELSE LET session == StudySession(active_timer.start_time, now,
                                   SessionDuration(active_timer, now), TRUE)
           sessions == <<session>>
           us1 == [user_stats EXCEPT !.total_study_time = @ + session.duration]
           us2 == update_streak(us1, now)
           res == check_achievements(sessions, us2, now)
       IN /\ Len(study_sessions) < MaxSessions
          /\ active_timer' = [active_timer EXCEPT !.is_running = FALSE]
          /\ study_sessions' = sessions
          /\ user_stats' = res.us
          /\ resp' = [op |-> "stop", status_code |-> 200, session |-> session,
                      streak |-> res.us.current_streak,
                      new_achievement |-> res.newly_unlocked]
          /\ reported' = [id \in IdSet |->
                            reported[id] +
                            (IF \E i \in 1..Len(res.newly_unlocked) : res.newly_unlocked[i] = id
                             THEN 1 ELSE 0)]
          /\ UNCHANGED <<now, back>>

\* the handler, serving a successful stop while the log holds fewer than cap sessions
stop_timer_upto(cap) ==
  IF NotRunning
  THEN /\ resp' = [op |-> "stop", status_code |-> 400, detail |-> "Timer is not running"]
       /\ UNCHANGED <<now, back, active_timer, study_sessions, user_stats, reported>>
  ELSE LET session == StudySession(active_timer.start_time, now,
                                   SessionDuration(active_timer, now), TRUE)
           sessions == Append(study_sessions, session)
           us1 == [user_stats EXCEPT !.total_study_time = @ + session.duration]
           us2 == update_streak(us1, now)
           res == check_achievements(sessions, us2, now)
       IN /\ Len(study_sessions) < cap
          /\ active_timer' = [active_timer EXCEPT !.is_running = FALSE]
          /\ study_sessions' = sessions
          /\ user_stats' = res.us
          /\ resp' = [op |-> "stop", status_code |-> 200, session |-> session,
                      streak |-> res.us.current_streak,
                      new_achievement |-> res.newly_unlocked]
          /\ reported' = [id \in IdSet |->
                            reported[id] +
                            (IF \E i \in 1..Len(res.newly_unlocked) : res.newly_unlocked[i] = id
                             THEN 1 ELSE 0)]
          /\ UNCHANGED <<now, back>>

stop_timer == stop_timer_upto(MaxSessions)

\* ---- GET /stats ----
Unlocked(us) == SelectSeq(AchievementIds, LAMBDA id : us.achievements[id].unlocked)

\* mutant: reading the statistics drops a streak that days without study have broken
get_stats_refreshes_streak ==
  LET us == IF /\ user_stats.last_study_date # None
               /\ Date(now) - Date(user_stats.last_study_date) > 1
            THEN [user_stats EXCEPT !.current_streak = 0]
            ELSE user_stats
  IN /\ user_stats' = us
     /\ resp' = [op |-> "stats",
                 total_study_time |-> us.total_study_time,
                 current_streak |-> us.current_streak,
                 longest_streak |-> us.longest_streak,
                 last_study_date |-> us.last_study_date,
                 achievement |-> Unlocked(us)]
     /\ UNCHANGED <<now, back, active_timer, study_sessions, reported>>

get_stats ==
  /\ resp' = [op |-> "stats",
              total_study_time |-> user_stats.total_study_time,
              current_streak |-> user_stats.current_streak,
              longest_streak |-> user_stats.longest_streak,
              last_study_date |-> user_stats.last_study_date,
              achievement |-> Unlocked(user_stats)]
  /\ UNCHANGED <<now, back, active_timer, study_sessions, user_stats, reported>>

\* ---- the wall clock ----
\* one minute passes
Tick ==
  /\ now < MaxTime
  /\ now' = now + 1
  /\ resp' = NoResp
  /\ UNCHANGED <<back, active_timer, study_sessions, user_stats, reported>>

\* the clock is set back by k minutes; at most MaxBack minutes over a run
ClockBack ==
  \E k \in 1..(MaxBack - back) :
    /\ now - k >= 0
    /\ now' = now - k
    /\ back' = back + k
    /\ resp' = NoResp
    /\ UNCHANGED <<active_timer, study_sessions, user_stats, reported>>

Init ==
  /\ now = 0
  /\ back = 0
  /\ active_timer = Timer(DefaultDuration, None, FALSE)
  /\ study_sessions = <<>>
  /\ user_stats = UserStats
  /\ resp = NoResp
  /\ reported = [id \in IdSet |-> 0]

\* the service under a clock that only moves forwards
Next ==
  \/ \E d \in Durations : start_timer(d)
  \/ get_timer_status
  \/ stop_timer
  \/ get_stats
  \/ Tick

Spec == Init /\ [][Next]_vars

\* the service under a clock that may also be set back; the timer is always
\* started with the default duration
NextSkew ==
  \/ start_timer(DefaultDuration)
  \/ get_timer_status
  \/ stop_timer
  \/ get_stats
  \/ Tick
  \/ ClockBack

SpecSkew == Init /\ [][NextSkew]_vars

\* a whole day passes, within the days 0..WeekStreak + 1
NextDay ==
  /\ Date(now) < WeekStreak + 1
  /\ now' = now + MinutesPerDay
  /\ resp' = NoResp
  /\ UNCHANGED <<back, active_timer, study_sessions, user_stats, reported>>

\* the service over the nine days a week-long streak and its loss take: the
\* clock moves by whole days, the timer is always started with the default
\* duration, and up to WeekStreak + 1 sessions are logged
NextWeek ==
  \/ start_timer(DefaultDuration)
  \/ stop_timer_upto(WeekStreak + 1)
  \/ NextDay

SpecWeek == Init /\ [][NextWeek]_vars

\* ---- helpers of the properties ----
InList(seq, x) == \E i \in 1..Len(seq) : seq[i] = x

RECURSIVE SumDurations(_)
SumDurations(seq) == IF seq = <<>> THEN 0 ELSE seq[1].duration + SumDurations(Tail(seq))

\* this step is a stop that succeeded / the last step was one
StopSucceeds == active_timer.is_running /\ resp'.op = "stop"

Stopped == resp.op = "stop" /\ resp.status_code = 200

\* this step is a stop that was refused / the last step was one
StopRefused == ~active_timer.is_running /\ resp'.op = "stop"

Refused == resp.op = "stop" /\ resp.status_code = 400

\* C1: in every reachable state longest_streak >= current_streak.
LongestAtLeastCurrent == user_stats.longest_streak >= user_stats.current_streak

\* C1 witness: a streak of two was broken, so the longest streak exceeds the current one
LongestExceedsCurrent ==
  /\ Stopped
  /\ user_stats.current_streak = 1
  /\ user_stats.longest_streak = 2

\* C2: total_study_time never decreases from one state to the next.
TotalNeverDecreases ==
  [][user_stats'.total_study_time >= user_stats.total_study_time]_vars

\* C3: total_study_time is the sum of the logged sessions' durations, and the
\* session a stop logs carries the configured duration of the stopped timer,
\* whatever time elapsed between its start and the stop.
TotalIsSumOfConfiguredDurations ==
  /\ user_stats.total_study_time = SumDurations(study_sessions)
  /\ Stopped =>
       /\ study_sessions[Len(study_sessions)] = resp.session
       /\ resp.session.duration = active_timer.duration
       /\ resp.session.start_time = active_timer.start_time

\* C3 witness: a stop whose logged duration differs from the time elapsed,
\* with more than one session in the log
LoggedDurationIsNotElapsed ==
  /\ Stopped
  /\ Len(study_sessions) >= 2
  /\ resp.session.duration # resp.session.end_time - resp.session.start_time
  /\ resp.session.duration > 0

\* C4: a stop while the timer is not running is refused with "Timer is not
\* running" and leaves the log, the statistics and the timer as they were.
RefusedStopChangesNothing ==
  [][StopRefused =>
       /\ resp'.status_code = 400
       /\ resp'.detail = "Timer is not running"
       /\ UNCHANGED <<active_timer, study_sessions, user_stats>>]_vars

\* C4 witness: a stop refused after a status read has ended the expired timer
\* (the timer was started, and no stop has ever succeeded)
RefusedAfterExpiry ==
  /\ Refused
  /\ active_timer.start_time # None
  /\ study_sessions = <<>>

StatusRead == resp'.op = "status"

\* the remaining time a status response reports
ReportedRemaining(r) == IF r.status = "running" THEN r.remaining_seconds ELSE r.remaining

\* C6: a successful stop on day T, with last_study_date on day D before it,
\* sets current_streak to 1 if last_study_date is unset, leaves it if T = D,
\* adds one if T = D + 1, and sets it to 1 otherwise (T >= D + 2, or T < D).
StreakLaw ==
  [][StopSucceeds =>
       LET T == Date(now)
           D == Date(user_stats.last_study_date)
           cs == user_stats.current_streak
           cs1 == user_stats'.current_streak
       IN IF user_stats.last_study_date = None THEN cs1 = 1
          ELSE IF T = D THEN cs1 = cs
          ELSE IF T = D + 1 THEN cs1 = cs + 1
          ELSE cs1 = 1]_vars

\* C6 witness: after the clock was set back, a stop on a day before the day of
\* the previous stop has reset a streak of two to one
StreakResetByEarlierDay ==
  /\ Stopped
  /\ Len(study_sessions) = 3
  /\ Date(study_sessions[3].end_time) < Date(study_sessions[2].end_time)
  /\ user_stats.current_streak = 1
  /\ user_stats.longest_streak = 2

FirstSessionOnFirstStop ==
  [][/\ StopSucceeds =>
          /\ InList(resp'.new_achievement, "first_session") <=> Len(study_sessions') = 1
          /\ Len(study_sessions') = 1 => user_stats'.current_streak = 1
     /\ study_sessions' # <<>> => user_stats'.achievements["first_session"].unlocked]_vars

\* C8 witness: the first stop, listing first_session, with a streak of one
FirstStopListsFirstSession ==
  /\ Stopped
  /\ Len(study_sessions) = 1
  /\ resp.new_achievement = <<"first_session">>
  /\ resp.streak = 1
  /\ user_stats.total_study_time = resp.session.duration

\* C9: a status read that directly follows a status read, the clock not having
\* moved, reports the same remaining time, and a timer reported running by
\* the first is still running after the second.
StatusIdempotent ==
  [][(resp.op = "status" /\ StatusRead) =>
       /\ ReportedRemaining(resp') = ReportedRemaining(resp)
       /\ resp.status = "running" =>
            (active_timer'.is_running /\ resp'.status = "running")]_vars

\* C9 witness: a read that reported a running timer with time left; a second
\* read leads to this same state
StatusReportsRunning ==
  /\ resp.op = "status"
  /\ resp.status = "running"
  /\ resp.remaining_seconds > 0
  /\ active_timer.is_running

\* C10: a status read of a running timer whose duration has elapsed reports
\* completed with remaining 0 and clears the running flag, nothing else; a read
\* of a running timer with time left reports running and changes no state.
StatusFrame ==
  [][(StatusRead /\ active_timer.is_running) =>
       IF now - active_timer.start_time >= active_timer.duration
       THEN /\ resp'.status = "completed"
            /\ resp'.remaining = 0
            /\ active_timer' = [active_timer EXCEPT !.is_running = FALSE]
            /\ UNCHANGED <<study_sessions, user_stats>>
       ELSE /\ resp'.status = "running"
            /\ UNCHANGED <<active_timer, study_sessions, user_stats>>]_vars

\* C10 witness: a read after the minutes of a positive duration have passed
\* reported completed and cleared the flag
StatusReportsCompleted ==
  /\ resp.op = "status"
  /\ resp.status = "completed"
  /\ active_timer.duration > 0
  /\ now - active_timer.start_time >= active_timer.duration
  /\ ~active_timer.is_running

\* C11: the session log is append-only: a successful stop appends exactly one
\* entry (the session it returns) and keeps the entries before it, in order;
\* every other step (start, status, stats, a refused stop, the clock) leaves
\* the log as it is.
SessionLogAppendOnly ==
  [][IF StopSucceeds
     THEN /\ Len(study_sessions') = Len(study_sessions) + 1
          /\ SubSeq(study_sessions', 1, Len(study_sessions)) = study_sessions
          /\ study_sessions'[Len(study_sessions')] = resp'.session
     ELSE study_sessions' = study_sessions]_vars

\* C11 witness: three sessions in the log, not all alike, and a stop refused
\* afterwards with the log still holding them
FullLogAfterRefusedStop ==
  /\ Refused
  /\ Len(study_sessions) = 3
  /\ study_sessions[1] # study_sessions[3]

\* the time since the timer's start has reached its duration
Elapsed == now - active_timer.start_time >= active_timer.duration

\* C12 as stated (for timers of a positive duration): a running timer stops
\* running only by a status read after its duration has elapsed or by a stop
\* before it has elapsed, and a stop after the duration has elapsed records no
\* session.
RunningEndsByStatusOrEarlyStop ==
  [][(active_timer.is_running /\ active_timer.duration > 0) =>
       /\ ~active_timer'.is_running =>
            \/ resp'.op = "status" /\ Elapsed
            \/ resp'.op = "stop" /\ ~Elapsed
       /\ (resp'.op = "stop" /\ Elapsed) => study_sessions' = study_sessions]_vars

\* C12 as amended: a running timer is changed only by a status read after its
\* duration has elapsed (which clears the running flag), by a stop (which
\* clears it too) or by a start (which replaces the timer); a stop of a running
\* timer succeeds and records a session whether or not the duration has
\* elapsed.
RunningEndsByStatusOrAnyStop ==
  [][active_timer.is_running =>
       /\ active_timer' # active_timer =>
            \/ /\ resp'.op = "status" /\ Elapsed
               /\ active_timer' = [active_timer EXCEPT !.is_running = FALSE]
            \/ /\ resp'.op = "stop"
               /\ active_timer' = [active_timer EXCEPT !.is_running = FALSE]
            \/ resp'.op = "start" /\ active_timer'.is_running
       /\ resp'.op = "stop" =>
            /\ resp'.status_code = 200
            /\ Len(study_sessions') = Len(study_sessions) + 1]_vars

\* C12 witness: a stop made after the minutes of a positive duration had
\* passed, the timer still running, succeeded and logged the session
StoppedAfterExpiry ==
  /\ Stopped
  /\ resp.session.duration > 0
  /\ resp.session.end_time - resp.session.start_time >= resp.session.duration
  /\ study_sessions[Len(study_sessions)] = resp.session

\* C13: start(d) can be served in every state, also while a timer is running;
\* it replaces the timer by one of duration d, started now and running, returns
\* it, and leaves the session log and the statistics (total, streaks, last
\* study date, achievements) as they were.
StartReplacesTimer ==
  /\ [](\A d \in Durations : ENABLED start_timer(d))
  /\ [][resp'.op = "start" =>
          /\ \E d \in Durations : start_timer(d) /\ active_timer' = Timer(d, now, TRUE)
          /\ resp'.timer = active_timer'
          /\ UNCHANGED <<study_sessions, user_stats>>]_vars

\* C13 witness: a start served after two sessions were logged: the timer is
\* the new one, the log and the total are those of the two sessions
StartedWithLogKept ==
  /\ resp.op = "start"
  /\ active_timer = resp.timer
  /\ active_timer.is_running
  /\ active_timer.start_time = now
  /\ Len(study_sessions) = 2
  /\ user_stats.total_study_time = SumDurations(study_sessions)
  /\ user_stats.current_streak = 2

\* C14: study_master ("Complete 10 hours of studying", 600 minutes) is
\* unlocked only in states where total_study_time >= 600.
StudyMasterNeedsTenHours ==
  user_stats.achievements["study_master"].unlocked => user_stats.total_study_time >= 600

\* the place of x in seq (0 when it is not in it)
IndexOf(seq, x) == IF InList(seq, x) THEN CHOOSE i \in 1..Len(seq) : seq[i] = x ELSE 0

StreakFields(us) == <<us.current_streak, us.longest_streak, us.last_study_date>>

\* C16: current_streak, longest_streak and last_study_date change only in a
\* successful stop, which applies the streak update once, for the instant of
\* the stop; start, status, stats, a refused stop and the passing of time
\* leave the three fields as they are.
StreakChangesOnlyOnStop ==
  [][IF StopSucceeds
     THEN StreakFields(user_stats') = StreakFields(update_streak(user_stats, now))
     ELSE StreakFields(user_stats') = StreakFields(user_stats)]_vars

\* C16 witness: two days after the last stop the statistics are read and
\* still show the streak of two
StreakKeptWhileDaysPass ==
  /\ resp.op = "stats"
  /\ resp.current_streak = 2
  /\ user_stats.current_streak = 2
  /\ Date(now) >= Date(user_stats.last_study_date) + 2

\* the calendar days on which a session of the log ended (a stop succeeded)
StudyDays(log) == {Date(log[i].end_time) : i \in 1..Len(log)}

\* the length of the longest run of consecutive days of S that ends on day T
RECURSIVE RunEndingOn(_, _)
RunEndingOn(S, T) == IF T \in S THEN 1 + RunEndingOn(S, T - 1) ELSE 0

\* C17: under a clock that never goes backwards, after a successful stop (and
\* until the next one) current_streak is the length of the longest run of
\* consecutive calendar days that ends on the day of that stop and has a
\* successful stop on each of its days.
StreakIsRunOfStudyDays ==
  study_sessions # <<>> =>
    user_stats.current_streak =
      RunEndingOn(StudyDays(study_sessions),
                  Date(study_sessions[Len(study_sessions)].end_time))

\* C17 witness: a stop, a day without one, then a stop on each of the next two
\* days: the streak is two, not three
RunOfTwoAfterGap ==
  /\ Stopped
  /\ Len(study_sessions) = 3
  /\ Date(study_sessions[2].end_time) = Date(study_sessions[1].end_time) + 2
  /\ Date(study_sessions[3].end_time) = Date(study_sessions[2].end_time) + 1
  /\ user_stats.current_streak = 2

\* C18: a successful stop on the calendar day of last_study_date leaves
\* current_streak, longest_streak and last_study_date (its time of day too) as
\* they are, and still logs a session, adds the timer's duration to the total
\* and answers with the list of newly unlocked achievements; every other
\* successful stop sets last_study_date to its instant; so after a successful
\* stop last_study_date lies on the day of the stop.
SameDayStopKeepsStreak ==
  [][StopSucceeds =>
       /\ IF /\ user_stats.last_study_date # None
             /\ Date(now) = Date(user_stats.last_study_date)
          THEN /\ StreakFields(user_stats') = StreakFields(user_stats)
               /\ Len(study_sessions') = Len(study_sessions) + 1
               /\ user_stats'.total_study_time
                    = user_stats.total_study_time + active_timer.duration
               /\ resp'.new_achievement \in Seq(IdSet)
          ELSE user_stats'.last_study_date = now
       /\ Date(user_stats'.last_study_date) = Date(now)]_vars

\* C18 witness: a second stop later on the same day: the session is logged and
\* counted, last_study_date is still the instant of the first stop
SecondStopOfTheDay ==
  /\ Stopped
  /\ Len(study_sessions) = 2
  /\ user_stats.last_study_date = study_sessions[1].end_time
  /\ resp.session.end_time > user_stats.last_study_date
  /\ Date(resp.session.end_time) = Date(user_stats.last_study_date)
  /\ user_stats.current_streak = 1
  /\ user_stats.total_study_time = SumDurations(study_sessions)

\* C19: three_day_streak is unlocked exactly when longest_streak >= 3 and
\* week_streak exactly when longest_streak >= 7; longest_streak never
\* decreases, and each step leaves it the larger of its old value and the new
\* current_streak (so, both starting at 0, it is the largest value
\* current_streak has held).
StreakBadgesFollowLongest ==
  /\ [](/\ user_stats.achievements["three_day_streak"].unlocked
             <=> user_stats.longest_streak >= 3
        /\ user_stats.achievements["week_streak"].unlocked
             <=> user_stats.longest_streak >= 7)
  /\ [][/\ user_stats'.longest_streak >= user_stats.longest_streak
        /\ user_stats'.longest_streak
             = Max(user_stats.longest_streak, user_stats'.current_streak)]_vars

\* C19 witness: a streak of seven days unlocked week_streak, and a stop after
\* a day without study has reset the streak: the longest streak is still seven
WeekStreakKeptAfterReset ==
  /\ Stopped
  /\ user_stats.current_streak = 1
  /\ user_stats.longest_streak = 7
  /\ user_stats.achievements["week_streak"].unlocked
  /\ user_stats.achievements["three_day_streak"].unlocked
  /\ reported["week_streak"] = 1

\* C20: a status read reports "completed" at most once per started timer:
\* the read that reports it, like a successful stop, leaves the timer not
\* running; a timer that is not running (also the initial one) stays so until
\* a start; and a status read of a timer that is not running reports "stopped"
\* with remaining 0.
CompletedReportedOnce ==
  [][/\ (StatusRead /\ resp'.status = "completed") => ~active_timer'.is_running
     /\ StopSucceeds => ~active_timer'.is_running
     /\ (~active_timer.is_running /\ active_timer'.is_running) => resp'.op = "start"
     /\ (StatusRead /\ ~active_timer.is_running) =>
          (resp'.status = "stopped" /\ resp'.remaining = 0)]_vars

\* C20 witness: a timer was started and never stopped, a status read found its
\* time up, and a later read, the clock having moved on, reports "stopped"
StoppedAfterCompleted ==
  /\ resp.op = "status"
  /\ resp.status = "stopped"
  /\ resp.remaining = 0
  /\ active_timer.start_time # None
  /\ active_timer.duration > 0
  /\ now > active_timer.start_time + active_timer.duration
  /\ study_sessions = <<>>

====
